---- MODULE Spec2Model ----
(***************************************************************************)
(* A state-machine model of the backend: the in-memory session store       *)
(* (managers/session_manager.py), the completion relay                     *)
(* (services/ai_service.py), the send-message endpoint                     *)
(* (routers/routers.py) and the media server (main.py): the download-speed *)
(* configuration, the probe, the listing and the rate-limited streams.     *)
(*                                                                         *)
(* Text is a sequence of Unicode code points, so that concatenation,       *)
(* str.strip() and the handler messages are modelled by what they do.      *)
(* Optional[T] is a sequence of length 0 (None) or 1.                      *)
(***************************************************************************)
EXTENDS Integers, Sequences, FiniteSets, TLC

(***************************************************************************)
(* Bounds of the model.                                                    *)
(***************************************************************************)
MaxSessions == 2
MaxRequests == 2
MaxChunks == 2
MaxClock == 1
MaxStoreCalls == 2
MaxFileSize == 4
MaxChunkSize == 2
MaxTime == 4
MaxStreams == 1

VARIABLES
    sessions,     \* SessionManager.sessions: session_id -> ChatSession
    now,          \* the wall clock: what datetime.now() returns
    fault,        \* Optional: the class of exception upstream has failed with
    rq,           \* the send-message requests: the handler's and generators' frames
    last_usage,   \* AIService._last_usage: Optional[TokenUsage]
    arrived,      \* per session, the save_message calls made on it, in call order
    ret,          \* the last call of the store: its arguments and what came back
    DOWNLOAD_SPEED_LIMIT,  \* main.py: the configured rate, in bytes per second
    CHUNK_SIZE,   \* main.py: the number of bytes of one read
    disk,         \* what is at each path under MEDIA_FILES_PATH
    time,         \* what time.time() returns, in seconds
    stream,       \* the byte stream of a media response: the generator's frame
    last_set,     \* Optional: the speed of the last set request that was accepted
    response      \* the last response of the media server

chatVars == <<sessions, now, fault, rq, last_usage, arrived, ret>>

mediaVars ==
    <<DOWNLOAD_SPEED_LIMIT, CHUNK_SIZE, disk, time, stream, last_set, response>>

vars == <<chatVars, mediaVars>>

Requests == 1..MaxRequests
\* Identifiers a caller may name; create_session issues 1, 2, ... and never 0.
Ids == 0..MaxSessions

None == <<>>
Some(v) == <<v>>

(***************************************************************************)
(* Text.                                                                   *)
(***************************************************************************)
\* The code points for which str.isspace() is true; str.strip() removes them.
Whitespace ==
    {9, 10, 11, 12, 13, 28, 29, 30, 31, 32, 133, 160, 5760, 8232, 8233, 8239,
     8287, 12288} \cup (8192..8202)

RECURSIVE LStrip(_)
LStrip(s) ==
    IF s # <<>> /\ Head(s) \in Whitespace THEN LStrip(Tail(s)) ELSE s

RECURSIVE RStrip(_)
RStrip(s) ==
    IF s # <<>> /\ s[Len(s)] \in Whitespace
    THEN RStrip(SubSeq(s, 1, Len(s) - 1))
    ELSE s

\* A reply saved as it was accumulated.
StripMut(s) == s

\* full_response.strip()
Strip(s) == RStrip(LStrip(s))

Newline == <<10>>

\* "Hello", "hi": the contents callers pass to the store.
UserMessages == {<<72, 101, 108, 108, 111>>, <<104, 105>>}

\* "Hello1", "Hello2", ...: what the client of request r sends.
RequestMessage(r) == <<72, 101, 108, 108, 111, 48 + r>>

\* "Hi", " there": the fragments upstream may send.
Fragments == {<<72, 105>>, <<32, 116, 104, 101, 114, 101>>}

(***************************************************************************)
(* AIService: the messages of the error handlers.                          *)
(***************************************************************************)
\* "[OpenAI API <error>: "
ErrorPrefix ==
    <<91, 79, 112, 101, 110, 65, 73, 32, 65, 80, 73, 32, 38169, 35823, 58, 32>>

_handle_authentication_error ==
    ErrorPrefix \o <<65, 80, 73, 32, 23494, 38053, 39564, 35777, 22833, 36133,
                     65292, 35831, 26816, 26597, 24744, 30340, 32, 65, 80, 73,
                     32, 23494, 38053, 35774, 32622, 93>>

_handle_rate_limit_error ==
    ErrorPrefix \o <<35831, 27714, 39057, 29575, 36807, 39640, 65292, 35831,
                     31245, 21518, 20877, 35797, 93>>

_handle_connection_error ==
    ErrorPrefix \o <<26080, 27861, 36830, 25509, 21040, 32, 79, 112, 101, 110,
                     65, 73, 32, 26381, 21153, 65292, 35831, 26816, 26597,
                     32593, 32476, 36830, 25509, 93>>

_handle_timeout_error ==
    ErrorPrefix \o <<35831, 27714, 36229, 26102, 65292, 35831, 31245, 21518,
                     37325, 35797, 93>>

_handle_bad_request_error ==
    ErrorPrefix \o <<35831, 27714, 26684, 24335, 38169, 35823, 65292, 35831,
                     26816, 26597, 36755, 20837, 20869, 23481, 93>>

\* The server-error handler returning the timeout handler's message.
HandleServerErrorMut == _handle_timeout_error

_handle_server_error ==
    ErrorPrefix \o <<79, 112, 101, 110, 65, 73, 32, 26381, 21153, 22120, 20869,
                     37096, 38169, 35823, 65292, 35831, 31245, 21518, 37325,
                     35797, 93>>

_handle_not_found_error ==
    ErrorPrefix \o <<35831, 27714, 30340, 36164, 28304, 19981, 23384, 22312, 93>>

_handle_permission_error ==
    ErrorPrefix \o <<26435, 38480, 19981, 36275, 65292, 35831, 26816, 26597, 32,
                     65, 80, 73, 32, 23494, 38053, 26435, 38480, 93>>

_handle_unprocessable_error ==
    ErrorPrefix \o <<35831, 27714, 20869, 23481, 26080, 27861, 22788, 29702,
                     65292, 35831, 26816, 26597, 36755, 20837, 26684, 24335, 93>>

\* The message of the catch-all clause.
UnknownErrorMessage ==
    ErrorPrefix \o <<21457, 29983, 26410, 30693, 38169, 35823, 65292, 35831,
                     31245, 21518, 37325, 35797, 93>>


\* The exception classes the completion call may raise: those the module
\* imports from the SDK, asyncio.TimeoutError, and any other Exception.
ExceptionClasses ==
    {"AuthenticationError", "RateLimitError", "APIConnectionError",
     "TimeoutError", "BadRequestError", "InternalServerError", "NotFoundError",
     "PermissionDeniedError", "UnprocessableEntityError", "ConflictError",
     "APIError", "Exception"}

\* isinstance: the classes an exception of class c is an instance of.
Superclasses(c) ==
    IF c \in {"Exception", "TimeoutError"} THEN {c, "Exception"}
    ELSE {c, "APIError", "Exception"}

\* The except clauses of stream_generate, in source order.
ExceptClauses ==
    << [class |-> "AuthenticationError", message |-> _handle_authentication_error],
       [class |-> "RateLimitError", message |-> _handle_rate_limit_error],
       [class |-> "APIConnectionError", message |-> _handle_connection_error],
       [class |-> "TimeoutError", message |-> _handle_timeout_error],
       [class |-> "BadRequestError", message |-> _handle_bad_request_error],
       [class |-> "InternalServerError", message |-> _handle_server_error],
       [class |-> "NotFoundError", message |-> _handle_not_found_error],
       [class |-> "PermissionDeniedError", message |-> _handle_permission_error],
       [class |-> "UnprocessableEntityError", message |-> _handle_unprocessable_error],
       [class |-> "Exception", message |-> UnknownErrorMessage] >>

\* The catch-all clause tried first.
MatchingClauseMut(c) == Len(ExceptClauses)

\* The clause that handles an exception of class c: the first that matches.
MatchingClause(c) ==
    CHOOSE i \in 1..Len(ExceptClauses) :
        /\ ExceptClauses[i].class \in Superclasses(c)
        /\ \A j \in 1..(i - 1) : ExceptClauses[j].class \notin Superclasses(c)

\* error_message in the handling clause.
ErrorMessage(c) == ExceptClauses[MatchingClause(c)].message

\* yield f"{error_message}\n"
ErrorFragment(c) == ErrorMessage(c) \o Newline

TokenUsage(p, c, t) ==
    [prompt_tokens |-> p, completion_tokens |-> c, total_tokens |-> t]

\* The usage totals upstream may report.
Usages == {TokenUsage(5, 2, 7)}

\* A chunk of the upstream stream: a text delta, or the closing usage report.
Chunks ==
    {[content |-> Some(f), usage |-> None] : f \in Fragments}
        \cup {[content |-> None, usage |-> Some(u)] : u \in Usages}

(***************************************************************************)
(* SessionManager.                                                         *)
(***************************************************************************)
Roles == {"user", "assistant", "system", "tool", "function"}

\* A message of the role given, whatever it is.
MessageMut(role, content) == [role |-> role, content |-> content]

\* The message save_message builds for a role.
Message(role, content) ==
    IF role \in {"user", "assistant", "system"}
    THEN [role |-> role, content |-> content]
    ELSE [role |-> "tool", content |-> content,
          tool_call_id |-> "unknown_" \o role]

ChatSession(t_created, t_updated) ==
    [created_at |-> t_created, updated_at |-> t_updated, messages |-> <<>>]

\* self.sessions.get(session_id)
get_session(S, sid) == IF sid \in DOMAIN S THEN Some(S[sid]) ELSE None

\* session.messages.insert(0, message)
AppendMessageMut(msgs, m) == <<m>> \o msgs

\* session.messages = [message]
AppendMessageReplaceMut(msgs, m) == <<m>>

\* session.messages.append(message)
AppendMessage(msgs, m) == Append(msgs, m)

\* The time of the update written to created_at.
update_sessionMut(S, sid, t) ==
    IF sid \in DOMAIN S THEN [S EXCEPT ![sid].created_at = t] ELSE S

update_session(S, sid, t) ==
    IF sid \in DOMAIN S THEN [S EXCEPT ![sid].updated_at = t] ELSE S

\* save_message creating the session it does not find.
save_messageMut(S, sid, role, content, t) ==
    LET S1 == IF sid \in DOMAIN S THEN S ELSE (sid :> ChatSession(t, t)) @@ S
    IN  update_session(
            [S1 EXCEPT ![sid].messages = AppendMessage(@, Message(role, content))],
            sid, t)

\* The store after save_message(sid, role, content), t being the clock's
\* reading in update_session.  An unknown sid is logged and nothing more.
save_message(S, sid, role, content, t) ==
    IF get_session(S, sid) # None
    THEN update_session(
             [S EXCEPT ![sid].messages = AppendMessage(@, Message(role, content))],
             sid, t)
    ELSE S

get_session_history(S, sid) ==
    IF get_session(S, sid) # None THEN S[sid].messages ELSE <<>>

\* The log of save_message calls on known sessions, in call order.
Arrive(sid, role, content) ==
    IF sid \in DOMAIN sessions
    THEN [arrived EXCEPT ![sid] = Append(@, [role |-> role, content |-> content])]
    ELSE arrived

(***************************************************************************)
(* The media server (main.py): configuration.                              *)
(***************************************************************************)
\* DOWNLOAD_SPEED_LIMIT = 10240 // 8 * 1024, the rate the server starts with.
InitialSpeedLimit == (10240 \div 8) * 1024

\* A float speed_mbps, in MB/s: the fraction n / d, which a float holds
\* exactly when d is a power of two.
SpeedMbps(n, d) == [n |-> n, d |-> d]

\* The speeds a set request may carry: negative, zero, half a byte per
\* second, one and two bytes per second, 0.01, 0.125 and 0.5 MB/s, the
\* ceiling, and above it.
Speeds ==
    {SpeedMbps(0 - 1, 1), SpeedMbps(0, 1), SpeedMbps(1, 2 * 1024 * 1024),
     SpeedMbps(1, 1024 * 1024), SpeedMbps(2, 1024 * 1024), SpeedMbps(1, 100),
     SpeedMbps(1, 8), SpeedMbps(1, 2), SpeedMbps(100, 1), SpeedMbps(101, 1)}

\* The speeds set while a stream runs.
SlowSpeeds ==
    {SpeedMbps(1, 2 * 1024 * 1024), SpeedMbps(1, 1024 * 1024),
     SpeedMbps(2, 1024 * 1024)}

\* int(speed_mbps * 1024 * 1024) for speed_mbps > 0: the product is exact for
\* the speeds above but 0.01, where it is 10485.76 to within 1e-11; int()
\* drops the fraction.
ToBytesPerSecond(v) ==
    (v.n \div v.d) * (1024 * 1024) + ((v.n % v.d) * (1024 * 1024)) \div v.d

\* set_download_speed without the ceiling.
set_download_speedMut(limit, v) ==
    IF v.n <= 0
    THEN [status |-> 400, detail |-> "Speed must be greater than 0",
          limit |-> limit]
    ELSE [status |-> 200, detail |-> "", limit |-> ToBytesPerSecond(v)]

\* set_download_speed(speed_mbps): the status and detail of the response and
\* the rate configured when it returns.
set_download_speed(limit, v) ==
    IF v.n <= 0
    THEN [status |-> 400, detail |-> "Speed must be greater than 0",
          limit |-> limit]
    ELSE IF v.n > 100 * v.d
    THEN [status |-> 400, detail |-> "Speed cannot exceed 100 MB/s",
          limit |-> limit]
    ELSE [status |-> 200, detail |-> "", limit |-> ToBytesPerSecond(v)]

\* Rounding that drops the fraction.
RoundHalfEvenMut(num, den) == num \div den

\* The integer nearest to num / den, a tie going to the even one: what
\* round() does with a float, which holds limit / 1024 / 1024 exactly.
RoundHalfEven(num, den) ==
    LET q == num \div den
        r == num % den
    IN  IF 2 * r > den \/ (2 * r = den /\ q % 2 = 1) THEN q + 1 ELSE q

\* round(DOWNLOAD_SPEED_LIMIT / 1024 / 1024, 2), in hundredths of a MB/s.
speed_limit_mbps(limit) ==
    100 * (limit \div (1024 * 1024))
        + RoundHalfEven(100 * (limit % (1024 * 1024)), 1024 * 1024)

(***************************************************************************)
(* The media server: the files under MEDIA_FILES_PATH.                     *)
(***************************************************************************)
\* decoded_file_name of a request; "" names the root itself.
Paths == {"", "clip.mp4", "LOGO.PNG", "notes.txt", "sub", "sub/deep.png",
          "gone.mp4"}

\* The directory a path is an entry of; the root is an entry of none.
Parent(p) ==
    CASE p = "" -> "none"
      [] p = "sub/deep.png" -> "sub"
      [] OTHER -> ""

\* Path.suffix
Suffix(p) ==
    CASE p \in {"clip.mp4", "gone.mp4"} -> ".mp4"
      [] p = "LOGO.PNG" -> ".PNG"
      [] p = "notes.txt" -> ".txt"
      [] p = "sub/deep.png" -> ".png"
      [] OTHER -> ""

\* str.lower() of a suffix.
Lower(x) == IF x = ".PNG" THEN ".png" ELSE x

video_extensions ==
    {".mp4", ".avi", ".mov", ".mkv", ".wmv", ".flv", ".webm", ".m4v", ".3gp"}

audio_extensions == {".mp3", ".wav", ".aac", ".flac", ".ogg", ".m4a", ".wma"}

image_extensions ==
    {".jpg", ".jpeg", ".png", ".gif", ".bmp", ".webp", ".svg", ".tiff"}

_get_media_type(file_extension) ==
    IF file_extension \in video_extensions THEN "video"
    ELSE IF file_extension \in audio_extensions THEN "audio"
    ELSE IF file_extension \in image_extensions THEN "image"
    ELSE "unknown"

mime_types ==
    (".mp4" :> "video/mp4") @@ (".avi" :> "video/avi")
    @@ (".mov" :> "video/quicktime") @@ (".mkv" :> "video/x-matroska")
    @@ (".wmv" :> "video/x-ms-wmv") @@ (".flv" :> "video/x-flv")
    @@ (".webm" :> "video/webm") @@ (".m4v" :> "video/mp4")
    @@ (".3gp" :> "video/3gpp") @@ (".mp3" :> "audio/mpeg")
    @@ (".wav" :> "audio/wav") @@ (".aac" :> "audio/aac")
    @@ (".flac" :> "audio/flac") @@ (".ogg" :> "audio/ogg")
    @@ (".m4a" :> "audio/mp4") @@ (".wma" :> "audio/x-ms-wma")
    @@ (".jpg" :> "image/jpeg") @@ (".jpeg" :> "image/jpeg")
    @@ (".png" :> "image/png") @@ (".gif" :> "image/gif")
    @@ (".bmp" :> "image/bmp") @@ (".webp" :> "image/webp")
    @@ (".svg" :> "image/svg+xml") @@ (".tiff" :> "image/tiff")

\* mime_types.get(file_extension, "application/octet-stream")
_get_mime_type(file_extension) ==
    IF file_extension \in DOMAIN mime_types
    THEN mime_types[file_extension]
    ELSE "application/octet-stream"

SUPPORTED_EXTENSIONS ==
    {".mp4", ".avi", ".mov", ".mkv", ".wmv", ".flv", ".webm", ".m4v", ".3gp",
     ".mp3", ".wav", ".aac", ".flac", ".ogg", ".m4a", ".wma",
     ".jpg", ".jpeg", ".png", ".gif", ".bmp", ".webp", ".svg", ".tiff"}

Absent == [kind |-> "absent", bytes |-> <<>>]
Directory == [kind |-> "dir", bytes |-> <<>>]
RegularFile(bytes) == [kind |-> "file", bytes |-> bytes]

\* The bytes of a file of n bytes, each different from the others.
FileBytes(n) == [i \in 1..n |-> i]

\* MEDIA_FILES_PATH does not exist.
NoRoot == [p \in Paths |-> Absent]

\* MEDIA_FILES_PATH after mkdir.
EmptyRoot == [NoRoot EXCEPT ![""] = Directory]

\* The root with a clip of n bytes, a picture, a text file and a
\* directory with a picture in it.
DiskWith(n) ==
    [p \in Paths |->
        CASE p \in {"", "sub"} -> Directory
          [] p = "clip.mp4" -> RegularFile(FileBytes(n))
          [] p = "LOGO.PNG" -> RegularFile(<<9>>)
          [] p = "notes.txt" -> RegularFile(<<8>>)
          [] p = "sub/deep.png" -> RegularFile(<<7, 6>>)
          [] OTHER -> Absent]

Disks == {NoRoot} \cup {DiskWith(n) : n \in 0..MaxFileSize}

\* Path.exists()
exists(d, p) == d[p].kind # "absent"

\* Path.is_file() answering for whatever exists.
is_fileMut(d, p) == d[p].kind # "absent"

\* Path.is_file()
is_file(d, p) == d[p].kind = "file"

\* Path.stat().st_size
st_size(d, p) == Len(d[p].bytes)

\* Path.iterdir() of the root: the order is the file system's.
iterdir(d) == {p \in Paths : exists(d, p) /\ Parent(p) = ""}

\* The checks and the headers head_media_file, get_media_file and
\* get_error_media_file share: the status, and Content-Length and the media
\* type when it is 200.
Probe(d, p) ==
    IF ~exists(d, p)
    THEN [status |-> 404, content_length |-> 0, media_type |-> ""]
    ELSE IF ~is_file(d, p)
    THEN [status |-> 400, content_length |-> 0, media_type |-> ""]
    ELSE [status |-> 200, content_length |-> st_size(d, p),
          media_type |-> _get_mime_type(Lower(Suffix(p)))]

\* The files list_media_files returns.
ListedFiles(d) ==
    {[name |-> p, size |-> st_size(d, p),
      type |-> _get_media_type(Lower(Suffix(p)))] :
        p \in {q \in iterdir(d) :
                  is_file(d, q) /\ Lower(Suffix(q)) \in SUPPORTED_EXTENSIONS}}

(***************************************************************************)
(* The media server: the byte streams.                                     *)
(***************************************************************************)
\* file.read(n) at a position: the bytes up to n that follow it.
read(bytes, position, n) ==
    SubSeq(bytes, position + 1,
           IF position + n < Len(bytes) THEN position + n ELSE Len(bytes))

\* The frame of a stream's generator; pc is where it is: "none", "created"
\* (the response is returned, the body not yet iterated), "sleeping" in
\* asyncio.sleep, "yielded", "abandoned" (left at its yield by a transport
\* that has gone), or ended: "done" (the loop left at end of file),
\* "aborted" (ConnectionError), "crashed" (ZeroDivisionError), "cancelled".
NoStream ==
    [pc |-> "none", n |-> 0, mode |-> "normal", path |-> "",
     content_length |-> 0, open |-> FALSE, position |-> 0, start_time |-> 0,
     bytes_sent |-> 0, file_size |-> 0, half_size |-> 0, chunk |-> <<>>,
     delay |-> None, rates |-> {}, emitted |-> <<>>, raised |-> ""]

Finished == {"done", "aborted", "crashed", "cancelled"}

\* Leaving the with block without closing the file.
LeaveMut(st, pc, exc) == [st EXCEPT !.pc = pc, !.raised = exc]

\* The generator leaves its with block, by the end of the loop or by an
\* exception: the file is closed, and no sleep is left behind.
Leave(st, pc, exc) ==
    [st EXCEPT !.pc = pc, !.raised = exc, !.open = FALSE, !.delay = None]

\* A sleep that any moment ends.
SleepIsOverMut(d, t) == TRUE

\* asyncio.sleep(d.num / d.den), begun at d.since, returns at t.
SleepIsOver(d, t) == (t - d.since) * d.den >= d.num

\* with open(file_path, "rb"), start_time and bytes_sent; the fault-injecting
\* stream also takes the size of the file and its half.
Enter(st, d, t) ==
    [st EXCEPT !.open = TRUE, !.start_time = t, !.bytes_sent = 0,
               !.file_size = IF st.mode = "error" THEN st_size(d, st.path) ELSE 0,
               !.half_size =
                   IF st.mode = "error" THEN st_size(d, st.path) \div 2 ELSE 0]

\* After the delay: _generate_error_file_stream raises once bytes_sent has
\* reached half of the file; otherwise the chunk is yielded.
Emit(st) ==
    IF st.mode = "error" /\ st.bytes_sent >= st.half_size
    THEN Leave(st, "aborted", "ConnectionError")
    ELSE [st EXCEPT !.pc = "yielded", !.delay = None,
                    !.emitted = Append(@, st.chunk)]

\* One turn of the loop, up to where the generator suspends or ends: the
\* read, the count, and the delay that the rate asks for at time t.
Turn(st, d, limit, size, t) ==
    LET chunk == read(d[st.path].bytes, st.position, size)
        sent == st.bytes_sent + Len(chunk)
        elapsed == t - st.start_time
        st1 == [st EXCEPT !.chunk = chunk, !.position = @ + Len(chunk),
                          !.bytes_sent = sent]
    IN  IF chunk = <<>> THEN Leave(st, "done", "")
        ELSE IF limit = 0 THEN Leave(st1, "crashed", "ZeroDivisionError")
        ELSE IF sent > elapsed * limit
        THEN [st1 EXCEPT !.pc = "sleeping", !.rates = @ \cup {limit},
                         !.delay = Some([num |-> sent - elapsed * limit,
                                         den |-> limit, since |-> t])]
        ELSE Emit([st1 EXCEPT !.rates = @ \cup {limit}])

NoResponse == [op |-> "none"]

IdleRequest ==
    [pc |-> "idle", session_id |-> 0, message |-> <<>>, nChunks |-> 0,
     pending |-> None, pendingUsage |-> None, inHandler |-> FALSE,
     raised |-> None, closing |-> FALSE, upstream |-> <<>>, delivered |-> <<>>, full_response |-> <<>>,
     chunk_count |-> 0, userAt |-> 0, assistantAt |-> <<>>]

\* The chat backend when the process starts.
InitChat ==
    /\ sessions = <<>>
    /\ now = 0
    /\ fault = None
    /\ rq = [r \in Requests |-> IdleRequest]
    /\ last_usage = None
    /\ arrived = <<>>
    /\ ret = [op |-> "none", n |-> 0]

\* The media server when the process starts.
InitServer ==
    /\ DOWNLOAD_SPEED_LIMIT = InitialSpeedLimit
    /\ time = 0
    /\ stream = NoStream
    /\ last_set = None
    /\ response = NoResponse

\* The process starts, with no media directory yet.
Init ==
    /\ InitChat
    /\ InitServer
    /\ CHUNK_SIZE = MaxChunkSize
    /\ disk = NoRoot

\* The process starts, with some chunk size and whatever is on the disk.
InitMedia ==
    /\ InitChat
    /\ InitServer
    /\ CHUNK_SIZE \in 1..MaxChunkSize
    /\ disk \in Disks

\* Time passes; the clock does not go back.
Tick ==
    /\ now < MaxClock
    /\ now' = now + 1
    /\ UNCHANGED <<sessions, fault, rq, last_usage, arrived, ret>>
    /\ UNCHANGED mediaVars

\* create_session(): a fresh identifier, and two readings of the clock,
\* between which time may pass.
CreateSession ==
    /\ Len(sessions) < MaxSessions
    /\ \E t2 \in now..MaxClock :
        /\ sessions' = Append(sessions, ChatSession(now, t2))
        /\ now' = t2
    /\ arrived' = Append(arrived, <<>>)
    /\ ret' = [op |-> "create_session", session_id |-> Len(sessions) + 1,
               n |-> ret.n]
    /\ UNCHANGED <<fault, rq, last_usage>>
    /\ UNCHANGED mediaVars

(***************************************************************************)
(* The store called directly, by any caller and with any arguments.        *)
(***************************************************************************)
\* get_session(sid)
StoreGet(sid) ==
    /\ ret.n < MaxStoreCalls
    /\ ret' = [op |-> "get_session", session_id |-> sid, n |-> ret.n + 1,
               raised |-> None, result |-> get_session(sessions, sid)]
    /\ UNCHANGED <<sessions, now, fault, rq, last_usage, arrived>>
    /\ UNCHANGED mediaVars

\* save_message(sid, role, content): returns None, whatever sid is.
StoreAppend(sid, role, content) ==
    /\ ret.n < MaxStoreCalls
    /\ sessions' = save_message(sessions, sid, role, content, now)
    /\ arrived' = Arrive(sid, role, content)
    /\ UNCHANGED now
    /\ ret' = [op |-> "save_message", session_id |-> sid, n |-> ret.n + 1,
               role |-> role, content |-> content,
               raised |-> None, result |-> None]
    /\ UNCHANGED <<fault, rq, last_usage>>
    /\ UNCHANGED mediaVars

\* get_session_history(sid)
StoreHistory(sid) ==
    /\ ret.n < MaxStoreCalls
    /\ ret' = [op |-> "get_session_history", session_id |-> sid,
               n |-> ret.n + 1, raised |-> None,
               result |-> get_session_history(sessions, sid)]
    /\ UNCHANGED <<sessions, now, fault, rq, last_usage, arrived>>
    /\ UNCHANGED mediaVars

(***************************************************************************)
(* POST /api/chat/send-message.                                            *)
(***************************************************************************)
\* The handler without its check of get_session.
SendMessageMut(r, sid, msg) ==
    /\ rq[r].pc = "idle"
    /\ IF r = 1 THEN TRUE ELSE rq[r - 1].pc # "idle"
    /\ sessions' = save_message(sessions, sid, "user", msg, now)
    /\ arrived' = Arrive(sid, "user", msg)
    /\ rq' = [rq EXCEPT ![r] =
                 [@ EXCEPT !.pc = "accepted",
                           !.session_id = sid,
                           !.message = msg,
                           !.userAt = Len(get_session_history(sessions', sid))]]
    /\ UNCHANGED <<now, fault, last_usage, ret>>
    /\ UNCHANGED mediaVars

\* The handler, up to returning the StreamingResponse: it does not await.
SendMessage(r, sid, msg) ==
    /\ rq[r].pc = "idle"
    /\ IF r = 1 THEN TRUE ELSE rq[r - 1].pc # "idle"
    /\ IF get_session(sessions, sid) = None
       THEN /\ rq' = [rq EXCEPT ![r] = [@ EXCEPT !.pc = "http404",
                                                 !.session_id = sid,
                                                 !.message = msg]]
            /\ UNCHANGED <<sessions, arrived>>
       ELSE /\ sessions' = save_message(sessions, sid, "user", msg, now)
            /\ arrived' = Arrive(sid, "user", msg)
            /\ rq' = [rq EXCEPT ![r] =
                         [@ EXCEPT !.pc = "accepted",
                                   !.session_id = sid,
                                   !.message = msg,
                                   !.userAt = Len(get_session_history(sessions', sid))]]
    /\ UNCHANGED <<now, fault, last_usage, ret>>
    /\ UNCHANGED mediaVars

\* The transport starts iterating generate_stream, which runs into
\* stream_generate and suspends in the completion call.
StartStream(r) ==
    /\ rq[r].pc = "accepted"
    /\ rq' = [rq EXCEPT ![r].pc = "creating"]
    /\ UNCHANGED <<sessions, now, fault, last_usage, arrived, ret>>
    /\ UNCHANGED mediaVars

\* The completion call returns the stream; the usage snapshot is reset.
CreateReturns(r) ==
    /\ rq[r].pc = "creating"
    /\ rq' = [rq EXCEPT ![r].pc = "iter"]
    /\ last_usage' = Some(TokenUsage(0, 0, 0))
    /\ UNCHANGED <<sessions, now, fault, arrived, ret>>
    /\ UNCHANGED mediaVars

\* Upstream raises an exception of class e, and the except clause of
\* stream_generate that handles it runs up to its yield.  An outage has one
\* cause: upstream fails with the same class throughout a behaviour.
Raise(r, e) ==
    /\ fault \in {None, Some(e)}
    /\ fault' = Some(e)
    /\ rq' = [rq EXCEPT ![r] = [@ EXCEPT !.pc = "yielded",
                                         !.raised = Some(e),
                                         !.inHandler = TRUE,
                                         !.pending = Some(ErrorFragment(e))]]
    /\ UNCHANGED <<sessions, now, last_usage, arrived, ret>>
    /\ UNCHANGED mediaVars

\* The completion call raises before any fragment.
CreateRaises(r, e) ==
    /\ rq[r].pc = "creating"
    /\ Raise(r, e)

\* self._last_usage.<field> = chunk.usage.<field> or 0, when the chunk has usage.
CollectUsage(usage) ==
    IF usage # None THEN Some(usage[1]) ELSE last_usage

\* Upstream delivers a chunk: its text is yielded, or its usage collected.
\* The usage report is the last chunk of a stream.
NextChunk(r, ch) ==
    /\ rq[r].pc = "iter"
    /\ rq[r].nChunks < MaxChunks
    /\ ~rq[r].closing
    /\ IF ch.content # None
       THEN /\ rq' = [rq EXCEPT ![r] = [@ EXCEPT !.pc = "yielded",
                                                 !.nChunks = @ + 1,
                                                 !.upstream = Append(@, ch.content[1]),
                                                 !.pending = ch.content,
                                                 !.pendingUsage = ch.usage]]
            /\ UNCHANGED last_usage
       ELSE /\ rq' = [rq EXCEPT ![r] = [@ EXCEPT !.nChunks = @ + 1,
                                                 !.closing = TRUE]]
            /\ last_usage' = CollectUsage(ch.usage)
    /\ UNCHANGED <<sessions, now, fault, arrived, ret>>
    /\ UNCHANGED mediaVars

\* Upstream raises between two chunks.
StreamRaises(r, e) ==
    /\ rq[r].pc = "iter"
    /\ Raise(r, e)

\* What is left of a request when its generators have gone, and their
\* frames with them: what the client and the store have seen of it.
Ended(q, pc) ==
    [IdleRequest EXCEPT !.pc = pc,
                        !.session_id = q.session_id,
                        !.message = q.message,
                        !.raised = q.raised,
                        !.upstream = q.upstream,
                        !.delivered = q.delivered,
                        !.userAt = q.userAt,
                        !.assistantAt = q.assistantAt]

\* generate_stream ending without saving the reply.
SaveReplyMut(r, q) ==
    /\ rq' = [rq EXCEPT ![r] = Ended(q, "done")]
    /\ UNCHANGED <<sessions, now, arrived>>

\* stream_generate has returned: generate_stream leaves its loop and saves
\* the reply, q being the request's frame at that point.
SaveReply(r, q) ==
    /\ sessions' = save_message(sessions, q.session_id, "assistant",
                                Strip(q.full_response), now)
    /\ arrived' = Arrive(q.session_id, "assistant", Strip(q.full_response))
    /\ rq' = [rq EXCEPT ![r] =
                 [Ended(q, "done") EXCEPT
                           !.assistantAt =
                               Append(@, Len(get_session_history(sessions',
                                                                 q.session_id)))]]
    /\ UNCHANGED now

\* The upstream stream ends.
StreamEnds(r) ==
    /\ rq[r].pc = "iter"
    /\ SaveReply(r, rq[r])
    /\ UNCHANGED <<fault, last_usage, ret>>
    /\ UNCHANGED mediaVars

\* The frame of generate_stream once the client has taken the fragment.
Received(q) ==
    [q EXCEPT !.delivered = Append(@, q.pending[1]),
              !.full_response = @ \o q.pending[1],
              !.chunk_count = @ + 1,
              !.pending = None,
              !.pendingUsage = None]

\* The client takes the fragment and both generators resume: after the
\* error fragment stream_generate resets the usage and returns, otherwise it
\* collects the chunk's usage and awaits the next chunk.
ClientReceives(r) ==
    /\ rq[r].pc = "yielded"
    /\ IF rq[r].inHandler
       THEN /\ last_usage' = Some(TokenUsage(0, 0, 0))
            /\ SaveReply(r, [Received(rq[r]) EXCEPT !.inHandler = FALSE])
       ELSE /\ last_usage' = CollectUsage(rq[r].pendingUsage)
            /\ rq' = [rq EXCEPT ![r] = [Received(rq[r]) EXCEPT !.pc = "iter"]]
            /\ UNCHANGED <<sessions, now, arrived>>
    /\ UNCHANGED <<fault, ret>>
    /\ UNCHANGED mediaVars

\* The client disconnects: the transport cancels the response, and the
\* CancelledError or GeneratorExit raised at the suspension point is a
\* BaseException, which no except clause of either generator catches.
Disconnect(r) ==
    /\ rq[r].pc \in {"accepted", "creating", "iter", "yielded"}
    /\ rq' = [rq EXCEPT ![r] = Ended(@, "cancelled")]
    /\ UNCHANGED <<sessions, now, fault, last_usage, arrived, ret>>
    /\ UNCHANGED mediaVars

Next ==
    \/ CreateSession
    \/ \E r \in Requests, sid \in Ids : SendMessage(r, sid, RequestMessage(r))
    \/ \E r \in Requests : StartStream(r)
    \/ \E r \in Requests : CreateReturns(r)
    \/ \E r \in Requests, e \in ExceptionClasses : CreateRaises(r, e)
    \/ \E r \in Requests, ch \in Chunks : NextChunk(r, ch)
    \/ \E r \in Requests, e \in ExceptionClasses : StreamRaises(r, e)
    \/ \E r \in Requests : StreamEnds(r)
    \/ \E r \in Requests : ClientReceives(r)
    \/ \E r \in Requests : Disconnect(r)

Spec == Init /\ [][Next]_vars

\* The store under arbitrary callers.
NextStore ==
    \/ Tick
    \/ CreateSession
    \/ \E sid \in Ids : StoreGet(sid)
    \/ \E sid \in Ids, role \in Roles, content \in UserMessages :
           StoreAppend(sid, role, content)
    \/ \E sid \in Ids : StoreHistory(sid)

SpecStore == Init /\ [][NextStore]_vars

(***************************************************************************)
(* The media server: its endpoints and its streams.                        *)
(***************************************************************************)
\* GET /config/download-speed
GetDownloadSpeed ==
    /\ response' =
           [op |-> "get_download_speed", status |-> 200,
            speed_limit_bytes_per_second |-> DOWNLOAD_SPEED_LIMIT,
            speed_limit_mbps |-> speed_limit_mbps(DOWNLOAD_SPEED_LIMIT),
            chunk_size |-> CHUNK_SIZE]
    /\ UNCHANGED <<DOWNLOAD_SPEED_LIMIT, CHUNK_SIZE, disk, time, stream, last_set>>
    /\ UNCHANGED chatVars

\* POST /config/download-speed/{speed_mbps}
SetDownloadSpeed(v) ==
    LET r == set_download_speed(DOWNLOAD_SPEED_LIMIT, v)
    IN  /\ DOWNLOAD_SPEED_LIMIT' = r.limit
        /\ last_set' = IF r.status = 200 THEN Some(v) ELSE last_set
        /\ response' =
               [op |-> "set_download_speed", speed_mbps |-> v,
                status |-> r.status, detail |-> r.detail,
                speed_limit_bytes_per_second |->
                    IF r.status = 200 THEN Some(r.limit) ELSE None]
        /\ UNCHANGED <<CHUNK_SIZE, disk, time, stream>>
        /\ UNCHANGED chatVars

\* HEAD /media/{file_name}
HeadMediaFile(p) ==
    /\ response' =
           [op |-> "head_media_file", path |-> p,
            status |-> Probe(disk, p).status,
            content_length |-> Probe(disk, p).content_length,
            media_type |-> Probe(disk, p).media_type]
    /\ UNCHANGED <<DOWNLOAD_SPEED_LIMIT, CHUNK_SIZE, disk, time, stream, last_set>>
    /\ UNCHANGED chatVars

\* A handler returning a StreamingResponse over a generator of the given
\* mode, when the checks pass; the generator has not started.
Serve(op, mode, p) ==
    /\ stream.pc \in {"none"} \cup Finished
    /\ stream.n < MaxStreams
    /\ response' =
           [op |-> op, path |-> p,
            status |-> Probe(disk, p).status,
            content_length |-> Probe(disk, p).content_length,
            media_type |-> Probe(disk, p).media_type]
    /\ stream' =
           IF Probe(disk, p).status = 200
           THEN [NoStream EXCEPT !.pc = "created", !.n = stream.n + 1,
                                 !.mode = mode, !.path = p,
                                 !.content_length = Probe(disk, p).content_length]
           ELSE stream
    /\ UNCHANGED <<DOWNLOAD_SPEED_LIMIT, CHUNK_SIZE, disk, time, last_set>>
    /\ UNCHANGED chatVars

\* GET /media/{file_name}
GetMediaFile(p) == Serve("get_media_file", "normal", p)

\* GET /errormedia/{file_name}
GetErrorMediaFile(p) == Serve("get_error_media_file", "error", p)

\* GET /media: a missing root is created and nothing listed.
ListMediaFiles ==
    /\ IF ~exists(disk, "")
       THEN /\ disk' = EmptyRoot
            /\ response' = [op |-> "list_media_files", status |-> 200,
                            files |-> {}, created |-> TRUE]
       ELSE /\ disk' = disk
            /\ response' = [op |-> "list_media_files", status |-> 200,
                            files |-> ListedFiles(disk), created |-> FALSE]
    /\ UNCHANGED <<DOWNLOAD_SPEED_LIMIT, CHUNK_SIZE, time, stream, last_set>>
    /\ UNCHANGED chatVars

\* time.time() moves on.
TimePasses ==
    /\ time < MaxTime
    /\ time' = time + 1
    /\ UNCHANGED <<DOWNLOAD_SPEED_LIMIT, CHUNK_SIZE, disk, stream, last_set, response>>
    /\ UNCHANGED chatVars

\* The generator keeping the rate the server started with.
IterateMut ==
    /\ stream.pc \in {"created", "yielded"}
    /\ stream' =
           Turn(IF stream.pc = "created" THEN Enter(stream, disk, time) ELSE stream,
                disk, InitialSpeedLimit, CHUNK_SIZE, time)
    /\ UNCHANGED <<DOWNLOAD_SPEED_LIMIT, CHUNK_SIZE, disk, time, last_set, response>>
    /\ UNCHANGED chatVars

\* The transport asks the generator for its next chunk: the first time the
\* generator opens the file, and each time it runs one turn of its loop.
Iterate ==
    /\ stream.pc \in {"created", "yielded"}
    /\ stream' =
           Turn(IF stream.pc = "created" THEN Enter(stream, disk, time) ELSE stream,
                disk, DOWNLOAD_SPEED_LIMIT, CHUNK_SIZE, time)
    /\ UNCHANGED <<DOWNLOAD_SPEED_LIMIT, CHUNK_SIZE, disk, time, last_set, response>>
    /\ UNCHANGED chatVars

\* asyncio.sleep returns and the generator goes on to its yield or its raise.
Wake ==
    /\ stream.pc = "sleeping"
    /\ SleepIsOver(stream.delay[1], time)
    /\ stream' = Emit(stream)
    /\ UNCHANGED <<DOWNLOAD_SPEED_LIMIT, CHUNK_SIZE, disk, time, last_set, response>>
    /\ UNCHANGED chatVars

\* The client disconnects and the transport cancels the response.  A
\* generator that never started has nothing open; one suspended in
\* asyncio.sleep gets the CancelledError there and leaves its with block;
\* one suspended at its yield is not running and is left as it is.
DisconnectStream ==
    /\ stream.pc \in {"created", "sleeping", "yielded"}
    /\ stream' =
           CASE stream.pc = "created" -> [stream EXCEPT !.pc = "cancelled"]
             [] stream.pc = "sleeping" -> Leave(stream, "cancelled", "CancelledError")
             [] stream.pc = "yielded" -> [stream EXCEPT !.pc = "abandoned"]
    /\ UNCHANGED <<DOWNLOAD_SPEED_LIMIT, CHUNK_SIZE, disk, time, last_set, response>>
    /\ UNCHANGED chatVars

\* The event loop finalizes the abandoned generator: aclose() raises
\* GeneratorExit at its yield.
Finalize ==
    /\ stream.pc = "abandoned"
    /\ stream' = Leave(stream, "cancelled", "GeneratorExit")
    /\ UNCHANGED <<DOWNLOAD_SPEED_LIMIT, CHUNK_SIZE, disk, time, last_set, response>>
    /\ UNCHANGED chatVars

\* The configuration, the probe and the listing.
NextConfig ==
    \/ GetDownloadSpeed
    \/ \E v \in Speeds : SetDownloadSpeed(v)
    \/ \E p \in Paths : HeadMediaFile(p)
    \/ \E p \in Paths : GetMediaFile(p)
    \/ \E p \in Paths : GetErrorMediaFile(p)
    \/ ListMediaFiles

SpecConfig == InitMedia /\ [][NextConfig]_vars

\* The streams, while time passes and the rate is set.
NextStream ==
    \/ \E v \in SlowSpeeds : SetDownloadSpeed(v)
    \/ \E p \in Paths : GetMediaFile(p)
    \/ \E p \in Paths : GetErrorMediaFile(p)
    \/ Iterate
    \/ Wake
    \/ DisconnectStream
    \/ Finalize
    \/ TimePasses

SpecStream == InitMedia /\ [][NextStream]_vars

(***************************************************************************)
(* The relay and the send-message endpoint: C1 to C6, under Spec.          *)
(***************************************************************************)
\* The reply stream of request r has run to completion.
Completed(r) == rq[r].pc = "done"

History(sid) == sessions[sid].messages

\* The positions of the assistant messages in a session's history.
AssistantMessages(sid) ==
    {i \in 1..Len(History(sid)) : History(sid)[i].role = "assistant"}

\* C1: every request on an existing session whose reply stream has completed,
\* upstream having ended or failed, has made exactly one append of an
\* assistant message to its session: each session holds one assistant message
\* per completed request on it, and each request its own.
C1_ExactlyOneAssistantAppend ==
    /\ \A r \in Requests :
           Completed(r) =>
               /\ Len(rq[r].assistantAt) = 1
               /\ rq[r].assistantAt[1] \in AssistantMessages(rq[r].session_id)
    /\ \A r1, r2 \in Requests :
           (r1 # r2 /\ Completed(r1) /\ Completed(r2)
                /\ rq[r1].session_id = rq[r2].session_id)
               => rq[r1].assistantAt # rq[r2].assistantAt
    /\ \A sid \in DOMAIN sessions :
           Cardinality(AssistantMessages(sid)) =
               Cardinality({r \in Requests :
                                Completed(r) /\ rq[r].session_id = sid})

\* A stream that failed after one fragment has completed.
C1_Witness ==
    \E r \in Requests :
        Completed(r) /\ rq[r].raised # None /\ Len(rq[r].delivered) = 2

\* C2: a request whose client has disconnected has still made its one append
\* of an assistant message.
C2_DisconnectStillPersists ==
    \A r \in Requests :
        rq[r].pc = "cancelled" => Len(rq[r].assistantAt) = 1

RECURSIVE Concat(_)
\* The in-order concatenation of a sequence of texts.
Concat(ts) == IF ts = <<>> THEN <<>> ELSE Head(ts) \o Concat(Tail(ts))

\* c is s without its leading and trailing whitespace.
IsStripOf(c, s) ==
    \E i \in 1..(Len(s) + 1) : \E j \in 0..Len(s) :
        /\ c = SubSeq(s, i, j)
        /\ \A k \in 1..(i - 1) : s[k] \in Whitespace
        /\ \A k \in (j + 1)..Len(s) : s[k] \in Whitespace
        /\ c # <<>> => (c[1] \notin Whitespace /\ c[Len(c)] \notin Whitespace)

\* The request appended its user message and later its one assistant message.
TwoMessages(r) ==
    LET h == History(rq[r].session_id)
        u == rq[r].userAt
        a == rq[r].assistantAt[1]
    IN  /\ Len(rq[r].assistantAt) = 1
        /\ 1 <= u /\ u < a /\ a <= Len(h)
        /\ h[u] = [role |-> "user", content |-> rq[r].message]
        /\ h[a].role = "assistant"

\* Every message of a history is the user message of one request on the
\* session or the assistant message of one completed request on it.
TwoPerRequest ==
    \A sid \in DOMAIN sessions :
        Len(History(sid)) =
            Cardinality({r \in Requests :
                             rq[r].userAt > 0 /\ rq[r].session_id = sid})
            + Cardinality({r \in Requests :
                               Completed(r) /\ rq[r].session_id = sid})

\* C3 as stated: the assistant message of a completed request is the
\* concatenation of the fragments delivered, and the request added its user
\* message and that assistant message to the history.
C3_ReplyIsConcatenation ==
    /\ \A r \in Requests :
           Completed(r) =>
               /\ TwoMessages(r)
               /\ History(rq[r].session_id)[rq[r].assistantAt[1]].content
                      = Concat(rq[r].delivered)
    /\ TwoPerRequest

\* C3 amended: the assistant message of a completed request is the
\* concatenation of the fragments delivered with its leading and trailing
\* whitespace removed, and the request added its user message and that
\* assistant message to the history.
C3_ReplyIsStrippedConcatenation ==
    /\ \A r \in Requests :
           Completed(r) =>
               /\ TwoMessages(r)
               /\ IsStripOf(History(rq[r].session_id)[rq[r].assistantAt[1]].content,
                            Concat(rq[r].delivered))
    /\ TwoPerRequest

\* A completed reply whose first fragment, " there", begins with a space.
C3_Witness ==
    \E r \in Requests :
        /\ Completed(r)
        /\ rq[r].raised = None
        /\ Len(rq[r].delivered) = 2
        /\ rq[r].delivered[1][1] \in Whitespace

\* The nine named classes and the message of each; any other class has the
\* message of the catch-all.
ExpectedMessage(c) ==
    CASE c = "AuthenticationError" -> _handle_authentication_error
      [] c = "RateLimitError" -> _handle_rate_limit_error
      [] c = "APIConnectionError" -> _handle_connection_error
      [] c = "TimeoutError" -> _handle_timeout_error
      [] c = "BadRequestError" -> _handle_bad_request_error
      [] c = "InternalServerError" -> _handle_server_error
      [] c = "NotFoundError" -> _handle_not_found_error
      [] c = "PermissionDeniedError" -> _handle_permission_error
      [] c = "UnprocessableEntityError" -> _handle_unprocessable_error
      [] OTHER -> UnknownErrorMessage

\* C4: when upstream has raised, before the first fragment or later, the
\* client is given the fragments upstream sent, in order, then one fragment
\* that is the sentinel of the failure (the message, ended by a newline), and
\* then the stream ends normally: nothing follows the sentinel.
C4_FailureEndsWithOneSentinel ==
    \A r \in Requests :
        rq[r].raised # None =>
            LET s == ExpectedMessage(rq[r].raised[1]) \o Newline
            IN  /\ rq[r].pc \in {"yielded", "done", "cancelled"}
                /\ rq[r].pc = "yielded" =>
                       /\ rq[r].pending = Some(s)
                       /\ rq[r].delivered = rq[r].upstream
                /\ rq[r].pc = "done" =>
                       rq[r].delivered = Append(rq[r].upstream, s)
                /\ \A i \in 1..Len(rq[r].upstream) : rq[r].upstream[i] # s

\* Upstream failed after two fragments and the stream has ended.
C4_Witness ==
    \E r \in Requests :
        Completed(r) /\ rq[r].raised # None /\ Len(rq[r].delivered) = 3

Kinds ==
    {"Authentication", "RateLimited", "ConnectionFailure", "Timeout",
     "BadRequest", "ServerError", "ResourceNotFound", "PermissionDenied",
     "UnprocessableContent", "Unknown"}

KindOfClass(c) ==
    CASE c = "AuthenticationError" -> "Authentication"
      [] c = "RateLimitError" -> "RateLimited"
      [] c = "APIConnectionError" -> "ConnectionFailure"
      [] c = "TimeoutError" -> "Timeout"
      [] c = "BadRequestError" -> "BadRequest"
      [] c = "InternalServerError" -> "ServerError"
      [] c = "NotFoundError" -> "ResourceNotFound"
      [] c = "PermissionDeniedError" -> "PermissionDenied"
      [] c = "UnprocessableEntityError" -> "UnprocessableContent"
      [] OTHER -> "Unknown"

SentinelOfKind(k) ==
    CASE k = "Authentication" -> _handle_authentication_error
      [] k = "RateLimited" -> _handle_rate_limit_error
      [] k = "ConnectionFailure" -> _handle_connection_error
      [] k = "Timeout" -> _handle_timeout_error
      [] k = "BadRequest" -> _handle_bad_request_error
      [] k = "ServerError" -> _handle_server_error
      [] k = "ResourceNotFound" -> _handle_not_found_error
      [] k = "PermissionDenied" -> _handle_permission_error
      [] k = "UnprocessableContent" -> _handle_unprocessable_error
      [] k = "Unknown" -> UnknownErrorMessage

\* The sentinel fragment a failed request has yielded.
SentinelYielded(r) ==
    IF rq[r].pc = "yielded" THEN rq[r].pending[1]
    ELSE rq[r].delivered[Len(rq[r].delivered)]

\* C5: the fragment yielded for a failure is the sentinel of exactly one of
\* the ten kinds, which is the kind of the class raised (Unknown for a class
\* outside the nine named), and the ten sentinels are pairwise distinct.
C5_ClassificationIsTotal ==
    /\ \A r \in Requests :
           (rq[r].raised # None /\ rq[r].pc \in {"yielded", "done"}) =>
               {k \in Kinds : SentinelOfKind(k) \o Newline = SentinelYielded(r)}
                   = {KindOfClass(rq[r].raised[1])}
    /\ \A k1, k2 \in Kinds :
           k1 # k2 => SentinelOfKind(k1) # SentinelOfKind(k2)

\* A failure of a class no clause names has been given the Unknown sentinel.
C5_Witness ==
    \E r \in Requests :
        /\ Completed(r)
        /\ rq[r].raised = Some("ConflictError")
        /\ SentinelYielded(r) = UnknownErrorMessage \o Newline

\* Each history is the log of the appends called on its session.
HistoryIsArrivalLog ==
    \A sid \in DOMAIN sessions :
        /\ Len(History(sid)) = Len(arrived[sid])
        /\ \A i \in 1..Len(arrived[sid]) :
               /\ History(sid)[i].role = arrived[sid][i].role
               /\ History(sid)[i].content = arrived[sid][i].content

\* A step that appends nothing to a session leaves its history as it is.
OtherSessionsUntouched ==
    \A sid \in DOMAIN sessions :
        arrived'[sid] = arrived[sid] => sessions'[sid].messages = History(sid)

\* C6: whatever the interleaving of the requests' appends, a history holds
\* each message appended to its session once, in the order the calls were
\* made, and an append to one session leaves the other histories unchanged.
C6_AppendsInArrivalOrder ==
    []HistoryIsArrivalLog /\ [][OtherSessionsUntouched]_vars

\* Two requests in flight on one session, both completed, while another
\* session exists: the two user messages arrived before either reply.
C6_Witness ==
    /\ Len(sessions) = 2
    /\ \E sid \in DOMAIN sessions :
           /\ Len(History(sid)) = 4
           /\ History(sid)[1].role = "user"
           /\ History(sid)[2].role = "user"
           /\ \A r \in Requests : Completed(r) /\ rq[r].session_id = sid

(***************************************************************************)
(* The session store: C7 to C10, under SpecStore.                          *)
(***************************************************************************)
\* The last call of the store was op, on an identifier the store does not hold.
OnUnknown(op) == ret.op = op /\ ret.session_id \notin DOMAIN sessions

\* A step that is a call of save_message.
AppendCalled == ret'.op = "save_message" /\ ret'.n # ret.n

\* C7 as stated: save_message on an identifier no create_session returned
\* fails with a NotFound signal, and get_session_history on such an
\* identifier returns the empty sequence without an error.
C7_UnknownAppendSignalsNotFound ==
    /\ OnUnknown("save_message") => ret.raised # None
    /\ OnUnknown("get_session_history") =>
           (ret.raised = None /\ ret.result = <<>>)

\* A call of save_message on an unknown identifier changes nothing and
\* returns None, as a call on a known identifier does.
UnknownAppendIsSilent ==
    (AppendCalled /\ ret'.session_id \notin DOMAIN sessions) =>
        /\ sessions' = sessions
        /\ now' = now
        /\ ret'.raised = None
        /\ ret'.result = None

\* C7 amended: save_message on an identifier no create_session returned
\* leaves the store unchanged and returns normally, with no signal to the
\* caller; get_session_history on such an identifier returns the empty
\* sequence without an error.
C7_UnknownAppendIsSilent ==
    /\ [][UnknownAppendIsSilent]_vars
    /\ [](OnUnknown("get_session_history") =>
              (ret.raised = None /\ ret.result = <<>>))
    /\ []((ret.op = "save_message" /\ ret.session_id \in DOMAIN sessions) =>
              (ret.raised = None /\ ret.result = None))

\* save_message has been called on an unknown identifier while the store
\* holds a session.
C7_Witness == OnUnknown("save_message") /\ Len(sessions) >= 1

\* C8: right after create_session has returned an identifier, get_session of
\* it is a session with no message and created_at equal to updated_at.
C8_CreatedEqualsUpdated ==
    ret.op = "create_session" =>
        LET g == get_session(sessions, ret.session_id)
        IN  /\ g # None
            /\ g[1].messages = <<>>
            /\ g[1].created_at = g[1].updated_at

IsPrefix(s, t) == Len(s) <= Len(t) /\ SubSeq(t, 1, Len(s)) = s

\* A step keeps every session and every stored message in its place, and a
\* call of save_message on a known session adds one message, with the
\* content given, at the end of its history and nothing anywhere else.
AppendOnlyStep ==
    \A sid \in DOMAIN sessions :
        /\ sid \in DOMAIN sessions'
        /\ IsPrefix(History(sid), sessions'[sid].messages)
        /\ IF AppendCalled /\ ret'.session_id = sid
           THEN /\ Len(sessions'[sid].messages) = Len(History(sid)) + 1
                /\ sessions'[sid].messages[Len(History(sid)) + 1].content
                       = ret'.content
           ELSE sessions'[sid].messages = History(sid)

\* C9: the history of a session is append-only: a successful append yields
\* the history followed by one message with the content given, and every
\* later history has that as a prefix.
C9_HistoryIsAppendOnly == [][AppendOnlyStep]_vars

\* A message has been appended to a history that held messages already.
C9_Witness ==
    /\ ret.op = "save_message"
    /\ ret.session_id \in DOMAIN sessions
    /\ Len(History(ret.session_id)) >= 2

UpdatedNotBeforeCreated ==
    \A sid \in DOMAIN sessions :
        sessions[sid].updated_at >= sessions[sid].created_at

\* C10 as stated: an append makes updated_at greater than it was, and
\* updated_at is never before created_at.
C10_UpdatedStrictlyIncreases ==
    /\ []UpdatedNotBeforeCreated
    /\ [][\A sid \in DOMAIN sessions :
              Len(sessions'[sid].messages) > Len(History(sid)) =>
                  sessions'[sid].updated_at > sessions[sid].updated_at]_vars

\* C10 amended: an append sets updated_at to the clock's reading, which is
\* not before the value it had (and is after it only if the clock has
\* advanced since), and updated_at is never before created_at.
C10_UpdatedNeverDecreases ==
    /\ []UpdatedNotBeforeCreated
    /\ [][\A sid \in DOMAIN sessions :
              Len(sessions'[sid].messages) > Len(History(sid)) =>
                  /\ sessions'[sid].updated_at = now
                  /\ sessions'[sid].updated_at >= sessions[sid].updated_at]_vars

\* An append has moved updated_at past created_at.
C10_Witness ==
    \E sid \in DOMAIN sessions :
        /\ Len(History(sid)) >= 1
        /\ sessions[sid].updated_at > sessions[sid].created_at
        /\ sessions[sid].updated_at = now

(***************************************************************************)
(* The send-message endpoint on an unknown session: C11, under Spec.       *)
(***************************************************************************)
\* What a request leaves behind when it is answered 404.
Untouched(r) ==
    /\ sessions' = sessions
    /\ arrived' = arrived
    /\ last_usage' = last_usage
    /\ \A q \in Requests \ {r} : rq'[q] = rq[q]
    /\ rq'[r].userAt = 0
    /\ rq'[r].upstream = <<>>
    /\ rq'[r].delivered = <<>>

NotFoundChangesNothing ==
    \A r \in Requests :
        /\ (rq[r].pc = "idle" /\ rq'[r].pc # "idle") =>
              /\ rq'[r].pc = "http404" <=> rq'[r].session_id \notin DOMAIN sessions
              /\ rq'[r].pc = "http404" => Untouched(r)
        /\ rq[r].pc = "http404" => rq'[r] = rq[r]

\* C11: a send-message request is answered 404 exactly when the session it
\* names is not in the store, and then it changes nothing: no session is
\* created, no message is appended to any session, the usage snapshot and the
\* other requests are as they were, and the request never reaches the
\* upstream completion call afterwards.
C11_UnknownSessionIs404 == [][NotFoundChangesNothing]_vars

\* A request was answered 404 while another one, on a session of the store,
\* ran to its end.
C11_Witness ==
    \E r, q \in Requests :
        /\ rq[r].pc = "http404"
        /\ rq[q].pc = "done"
        /\ Len(History(rq[q].session_id)) = 2

(***************************************************************************)
(* The usage snapshot: C18, under Spec.                                    *)
(***************************************************************************)
RECURSIVE PromptChars(_)
\* sum(self._get_message_content_length(msg) for msg in messages): every
\* message of the store has text for content.
PromptChars(msgs) ==
    IF msgs = <<>> THEN 0 ELSE Len(Head(msgs).content) + PromptChars(Tail(msgs))

\* The estimate generate_with_usage makes when no count was collected.
EstimatedUsage(msgs, full_response) ==
    TokenUsage(PromptChars(msgs) \div 4, Len(full_response) \div 4,
               PromptChars(msgs) \div 4 + Len(full_response) \div 4)

\* No request but r is in flight.
Alone(r) ==
    \A q \in Requests \ {r} : rq[q].pc \in {"idle", "http404", "done", "cancelled"}

UsageOfCall ==
    \A r \in Requests :
        /\ (Alone(r) /\ rq[r].pc = "iter" /\ rq'[r].pc = "done") =>
              IF rq[r].closing
              THEN last_usage' \in {Some(u) : u \in Usages}
              ELSE last_usage' =
                       Some(EstimatedUsage(History(rq[r].session_id),
                                           rq[r].full_response))
        /\ (Alone(r) /\ rq[r].pc = "accepted" /\ rq'[r].pc = "creating") =>
              last_usage' \in {None, Some(TokenUsage(0, 0, 0))}

\* C18: when the streaming call of a send-message request ends, no other
\* request being in flight, the usage snapshot is the counts upstream
\* reported, or else the estimate of a quarter of the characters of the
\* prompt and of the reply, rounded down, and their sum; and when the call
\* starts the snapshot holds no counts of an earlier call.
C18_UsageIsReportedOrEstimated == [][UsageOfCall]_vars

(***************************************************************************)
(* The download-speed configuration: C12 and C13, under SpecConfig.        *)
(***************************************************************************)
OutOfRange(v) == v.n <= 0 \/ v.n > 100 * v.d

SetRateChecked ==
    response'.op = "set_download_speed" =>
        LET v == response'.speed_mbps
        IN  IF OutOfRange(v)
            THEN /\ response'.status = 400
                 /\ DOWNLOAD_SPEED_LIMIT' = DOWNLOAD_SPEED_LIMIT
            ELSE /\ response'.status = 200
                 /\ DOWNLOAD_SPEED_LIMIT' * v.d <= v.n * (1024 * 1024)
                 /\ v.n * (1024 * 1024) < (DOWNLOAD_SPEED_LIMIT' + 1) * v.d

\* C12: a set request whose speed is at most 0 or more than 100 MB/s is
\* answered 400 and leaves the configured rate as it was; a request whose
\* speed is in (0, 100], 100 included, is answered 200 and configures the
\* whole number of bytes per second of that speed.
C12_OutOfRangeRateRejected == [][SetRateChecked]_vars

\* 100 MB/s was accepted, and then 101 MB/s rejected.
C12_Witness ==
    /\ last_set = Some(SpeedMbps(100, 1))
    /\ response.op = "set_download_speed"
    /\ response.speed_mbps = SpeedMbps(101, 1)
    /\ response.status = 400
    /\ DOWNLOAD_SPEED_LIMIT = 100 * 1024 * 1024

\* A get request answered after an accepted set request, and no set
\* request since.
GetAfterSet == response.op = "get_download_speed" /\ last_set # None

\* C13, as claimed: a get after an accepted set of v MB/s returns v MB/s,
\* whatever fraction v is.
C13_GetReturnsTheSpeedSet ==
    GetAfterSet =>
        response.speed_limit_mbps * last_set[1].d = 100 * last_set[1].n

\* C13, as the code has it: a get after an accepted set of v MB/s returns
\* the whole number of bytes per second of v, and in MB/s returns v itself
\* whenever v is a whole number of hundredths of a MB/s.
C13_GetReturnsHundredthsSet ==
    GetAfterSet =>
        LET v == last_set[1]
            bytes == response.speed_limit_bytes_per_second
        IN  /\ bytes * v.d <= v.n * (1024 * 1024)
            /\ v.n * (1024 * 1024) < (bytes + 1) * v.d
            /\ (100 * v.n) % v.d = 0 =>
                   response.speed_limit_mbps * v.d = 100 * v.n

\* 0.01 MB/s was set, and the get returned 0.01.
C13_Witness ==
    /\ GetAfterSet
    /\ last_set = Some(SpeedMbps(1, 100))
    /\ response.speed_limit_mbps = 1

(***************************************************************************)
(* The probe and the listing: C19, under SpecConfig.                       *)
(***************************************************************************)
ProbeOps == {"head_media_file", "get_media_file", "get_error_media_file"}

\* The regular files directly under the root whose extension, in whatever
\* case, is a supported one.
SupportedHere == {p \in {"clip.mp4", "LOGO.PNG"} : disk[p].kind = "file"}

\* C19: the probe, the GET and the fault-injecting GET answer 404 when
\* nothing is at the path, 400 when something that is not a regular file is,
\* and otherwise 200 with the size of the file, whatever its extension; the
\* listing returns exactly the regular files directly under the root with a
\* supported extension, each with its size.
C19_ProbeAndListing ==
    /\ response.op \in ProbeOps =>
           CASE disk[response.path].kind = "absent" -> response.status = 404
             [] disk[response.path].kind = "dir" -> response.status = 400
             [] disk[response.path].kind = "file" ->
                    /\ response.status = 200
                    /\ response.content_length = Len(disk[response.path].bytes)
    /\ response.op = "list_media_files" =>
           /\ {f.name : f \in response.files} = SupportedHere
           /\ \A f \in response.files : f.size = Len(disk[f.name].bytes)

\* The text file was served, and the listing that followed has the two
\* media files and not the text file.
C19_Witness ==
    /\ response.op = "list_media_files"
    /\ Cardinality(response.files) = 2
    /\ stream.pc = "created"
    /\ stream.path = "notes.txt"

(***************************************************************************)
(* The byte streams: C14 to C17 and C20, under SpecStream.                 *)
(***************************************************************************)
EmittedBytes == Len(Concat(stream.emitted))

\* C14: when every turn of a stream has read the same rate R > 0, then once
\* a chunk is emitted the time since the stream started, times R, is at
\* least the bytes read up to that chunk; and so it is, for the size of the
\* file, when the normal stream has ended.
C14_EmissionNotAheadOfRate ==
    \A R \in stream.rates :
        (stream.rates = {R} /\ stream.pc \in {"yielded", "abandoned", "done"}) =>
            /\ R > 0
            /\ (time - stream.start_time) * R >= stream.bytes_sent
            /\ stream.pc = "done" =>
                   stream.bytes_sent = Len(disk[stream.path].bytes)

\* A file of more than one chunk was streamed to its end at one byte per
\* second.
C14_Witness ==
    /\ stream.pc = "done"
    /\ stream.rates = {1}
    /\ Len(stream.emitted) >= 2
    /\ stream.bytes_sent >= 3

\* C15: a normal stream that has ended without being cancelled has ended
\* normally, and its chunks together are the bytes of the file in order, as
\* many as the Content-Length of its response and of the probe.
C15_NormalStreamServesWholeFile ==
    (stream.mode = "normal" /\ stream.pc \in Finished \ {"cancelled"}) =>
        /\ stream.pc = "done"
        /\ Concat(stream.emitted) = disk[stream.path].bytes
        /\ EmittedBytes = stream.content_length
        /\ EmittedBytes = Probe(disk, stream.path).content_length

\* C16: a fault-injecting stream that has ended without being cancelled has
\* ended with the transfer aborted, having emitted fewer bytes than half of
\* the file, rounded up, and a chunk.
C16_FaultStreamAlwaysAborts ==
    (stream.mode = "error" /\ stream.pc \in Finished \ {"cancelled"}) =>
        /\ stream.pc = "aborted"
        /\ EmittedBytes
               < (Len(disk[stream.path].bytes) + 1) \div 2 + CHUNK_SIZE

RECURSIVE ChunksOf(_, _)
\* The bytes cut into chunks of n, the last one shorter if need be.
ChunksOf(bytes, n) ==
    IF bytes = <<>> THEN <<>>
    ELSE IF Len(bytes) <= n THEN <<bytes>>
    ELSE <<SubSeq(bytes, 1, n)>> \o ChunksOf(SubSeq(bytes, n + 1, Len(bytes)), n)

\* C20: when the fault-injecting stream aborts, the chunks it has emitted
\* are the first chunks of the normal stream over the file, and the bytes
\* emitted have reached half of the size of the file.
C20_AbortsWhenHalfEmitted ==
    (stream.mode = "error" /\ stream.pc = "aborted") =>
        /\ IsPrefix(stream.emitted, ChunksOf(disk[stream.path].bytes, CHUNK_SIZE))
        /\ EmittedBytes >= Len(disk[stream.path].bytes) \div 2

(***************************************************************************)
(* The rate read by a running stream: C21, under SpecStream.               *)
(***************************************************************************)
\* The generator has run a turn of its loop and read a chunk.
Turned ==
    /\ stream.pc \in {"created", "yielded"}
    /\ stream'.position > stream.position

RateSampledPerTurn ==
    /\ (Turned /\ stream'.pc = "sleeping") =>
           /\ stream'.delay[1].den = DOWNLOAD_SPEED_LIMIT
           /\ stream'.delay[1].num =
                  stream'.bytes_sent
                      - (time - stream'.start_time) * DOWNLOAD_SPEED_LIMIT
           /\ stream'.delay[1].since = time
           /\ DOWNLOAD_SPEED_LIMIT \in stream'.rates
    /\ (Turned /\ stream'.pc \in {"yielded", "aborted"}) =>
           /\ DOWNLOAD_SPEED_LIMIT > 0
           /\ stream'.bytes_sent
                  <= (time - stream'.start_time) * DOWNLOAD_SPEED_LIMIT
           /\ DOWNLOAD_SPEED_LIMIT \in stream'.rates
    /\ Turned => (stream'.pc = "crashed" <=> DOWNLOAD_SPEED_LIMIT = 0)
    /\ (stream.pc = "sleeping" /\ stream'.pc = "sleeping") =>
           stream'.delay = stream.delay
    /\ (stream.pc = "sleeping" /\ stream'.pc \in {"yielded", "aborted"}) =>
           (time - stream.delay[1].since) * stream.delay[1].den
               >= stream.delay[1].num

\* C21: every turn of a stream, the first one included, computes its delay
\* from the rate configured at that moment, applied to the bytes read and
\* the time elapsed since the stream started (and ends the stream when that
\* rate is 0); a delay once computed is not altered by a later set request,
\* and the sleep lasts that delay.
C21_RateSampledEachChunk == [][RateSampledPerTurn]_vars

\* A stream that has read two rates sleeps a delay computed from the rate
\* now configured.
C21_Witness ==
    /\ stream.pc = "sleeping"
    /\ Cardinality(stream.rates) = 2
    /\ stream.emitted # <<>>
    /\ stream.delay[1].den = DOWNLOAD_SPEED_LIMIT

(***************************************************************************)
(* The roles of stored messages: C22, under SpecStore.                     *)
(***************************************************************************)
\* The last call of the store was a save_message on a session of the store.
Appended == ret.op = "save_message" /\ ret.session_id \in DOMAIN sessions

LastMessage == History(ret.session_id)[Len(History(ret.session_id))]

\* C22, as claimed: the message stored has the role and the content given,
\* whatever the role, and a correlation identifier only when its role is
\* tool.
C22_StoredRoleIsGivenRole ==
    Appended =>
        /\ LastMessage.role = ret.role
        /\ LastMessage.content = ret.content
        /\ "tool_call_id" \in DOMAIN LastMessage => LastMessage.role = "tool"

\* C22, as the code has it: the message stored has the content given and
\* the role given when that is user, assistant, system or tool; any other
\* role is stored as tool; and a message carries a correlation identifier
\* exactly when its stored role is tool.
C22_OtherRolesStoredAsTool ==
    Appended =>
        /\ LastMessage.content = ret.content
        /\ LastMessage.role =
               IF ret.role \in {"user", "assistant", "system", "tool"}
               THEN ret.role ELSE "tool"
        /\ "tool_call_id" \in DOMAIN LastMessage <=> LastMessage.role = "tool"

\* A message of role function was appended, and is stored as tool.
C22_Witness ==
    /\ Appended
    /\ ret.role = "function"
    /\ LastMessage.role = "tool"

(***************************************************************************)
(* The history handed to upstream: C23, under Spec.                        *)
(***************************************************************************)
\* The list stream_generate passes to the completion call when request r
\* makes the call now: the list of the session itself, as it is now.
Context(r) == get_session_history(sessions, rq[r].session_id)

HistoryHandedOver ==
    \A r \in Requests :
        (rq[r].pc = "accepted" /\ rq'[r].pc = "creating") =>
            /\ Len(Context(r)) = rq[r].userAt
            /\ Context(r)[Len(Context(r))] =
                   [role |-> "user", content |-> rq[r].message]

\* C23: the list a request hands to the completion call is the history of
\* its session as it stood right after the request's own user message was
\* appended, that message being its last element.
C23_ContextEndsWithOwnMessage == [][HistoryHandedOver]_vars

(***************************************************************************)
(* The configured rate is positive: C24, under SpecStream.                 *)
(***************************************************************************)
\* C24: the configured rate is a positive number of bytes per second, and
\* no stream has ended dividing by it.
C24_RateStaysPositive ==
    /\ DOWNLOAD_SPEED_LIMIT > 0
    /\ stream.raised # "ZeroDivisionError"

(***************************************************************************)
(* The usage of overlapping calls: C25, under Spec.                        *)
(***************************************************************************)
\* The usage generate_with_usage returns when the stream has ended: the
\* snapshot, or the estimate when the snapshot has no total.
generate_with_usage(usage, msgs, full_response) ==
    IF usage = None \/ usage[1].total_tokens = 0
    THEN EstimatedUsage(msgs, full_response)
    ELSE usage[1]

\* C25: a call whose stream has delivered its usage report, and now ends,
\* returns the usage upstream reported to it, whatever other calls are in
\* flight.
C25_UsageIsTheCallsOwn ==
    \A r \in Requests :
        (rq[r].pc = "iter" /\ rq[r].closing) =>
            generate_with_usage(last_usage, Context(r), rq[r].full_response)
                \in Usages

====
